---- MODULE Spec2Model ----
(***************************************************************************)
(* Model of lib/ansible/modules/cloud/amazon/ec2_lt.py: the Converger      *)
(* (create_launch_template_or_version), the Remover                        *)
(* (delete_launch_template_or_version), the six client wrappers they call, *)
(* and the EC2 launch-template service those wrappers talk to.             *)
(*                                                                         *)
(* One step of an invocation is one wrapper call together with the local   *)
(* code that runs up to the next call.  Python's None is the empty         *)
(* sequence <<>> and a value v that may be None is <<v>>; a dict is the set *)
(* of its <<key, value>> items.                                            *)
(***************************************************************************)
EXTENDS Integers, Sequences, FiniteSets, TLC

VARIABLES
    templates,  \* the service: launch template name -> template with its versions
    inv,        \* per host process: the invocation it runs (module.params, locals, position)
    last        \* per host process: the task it ran last, if that was a successful Converger run

vars == <<templates, inv, last>>

(***************************************************************************)
(* Bounds and the small input sets.                                        *)
(***************************************************************************)
MaxVersion == 2            \* the service refuses versions beyond this number

Procs    == {1, 2}         \* host processes that can run the module
SeqProcs == {1}            \* the one that runs in the sequential specification
Names    == {"special", "other"}
Ids      == {"lt-special", "lt-other"}

None    == <<>>
Some(v) == <<v>>

IdOf(name) == IF name = "special" THEN "lt-special" ELSE "lt-other"

\* CreateTime the service stamps on version v of template name; a template carries
\* the stamp of its first version.
TimeOf(name, v) == <<"created", name, v>>

Max(S) == CHOOSE m \in S : \A k \in S : k <= m

(***************************************************************************)
(* Python helpers.                                                         *)
(***************************************************************************)
\* bool(x) of an optional str: None and "" are falsy
TruthyStr(o) == o # None /\ o[1] # ""

\* bool(x) of an optional list: None and [] are falsy
TruthyList(o) == o # None /\ Len(o[1]) > 0

\* bool(d) of a dict
TruthyDict(d) == d # {}

\* a Python int or str value, tagged with its type
PyInt(n) == <<"int", n>>
PyStr(s) == <<"str", s>>

\* str(x): the decimal text of an int, a str as it is
str(x) == IF x[1] = "int" THEN ToString(x[2]) ELSE x[2]

\* d[k] of a dict
Get(d, k) == (CHOOSE kv \in d : kv[1] = k)[2]

to_text(v) == <<"text", v>>

(***************************************************************************)
(* The service (the boto3 EC2 client's launch-template calls).  A response *)
(* is "ok", a ClientError (the service refused the request) or a           *)
(* BotoCoreError (the request never got an answer).  Any call may be       *)
(* refused or lost; "ok" needs the target to be there.  An error response  *)
(* leaves the service unchanged.                                           *)
(***************************************************************************)
Responses == {"ok", "ClientError", "BotoCoreError"}

\* the template a by-name or by-id request addresses, as a set (empty: no such template)
Addressed(T, by, key) ==
    IF by = "name" THEN {n \in DOMAIN T : n = key}
    ELSE {n \in DOMAIN T : T[n].LaunchTemplateId = key}

\* the version numbers of template n that the Versions=[s] filter selects
Selected(T, n, s) == {v \in DOMAIN T[n].versions : ToString(v) = s}

\* one entry of describe_launch_templates()['LaunchTemplates']
TemplateView(T, n) ==
    [LaunchTemplateId     |-> T[n].LaunchTemplateId,
     LaunchTemplateName   |-> n,
     CreateTime           |-> T[n].CreateTime,
     DefaultVersionNumber |-> T[n].DefaultVersionNumber,
     LatestVersionNumber  |-> Max(DOMAIN T[n].versions)]

\* one entry of describe_launch_template_versions()['LaunchTemplateVersions']
VersionView(T, n, v) ==
    [LaunchTemplateName |-> n,
     VersionNumber      |-> v,
     LaunchTemplateData |-> T[n].versions[v].LaunchTemplateData,
     CreateTime         |-> T[n].versions[v].CreateTime]

DescribeTemplatesResponses(T, by, key) ==
    {"ClientError", "BotoCoreError"}
        \cup (IF Addressed(T, by, key) # {} THEN {"ok"} ELSE {})

DescribeVersionsResponses(T, by, key, s) ==
    {"ClientError", "BotoCoreError"}
        \cup (IF \E n \in Addressed(T, by, key) : Selected(T, n, s) # {}
              THEN {"ok"} ELSE {})

\* template names are unique: a second template of the same name is refused
CreateTemplateResponses(T, name) ==
    {"ClientError", "BotoCoreError"}
        \cup (IF name \in Names /\ name \notin DOMAIN T THEN {"ok"} ELSE {})

CreateVersionResponses(T, name) ==
    {"ClientError", "BotoCoreError"}
        \cup (IF name \in DOMAIN T /\ Max(DOMAIN T[name].versions) < MaxVersion
              THEN {"ok"} ELSE {})

DeleteTemplateResponses(T, by, key) ==
    {"ClientError", "BotoCoreError"}
        \cup (IF Addressed(T, by, key) # {} THEN {"ok"} ELSE {})

\* the default version of a template cannot be deleted on its own
DeleteVersionsResponses(T, by, key, s) ==
    {"ClientError", "BotoCoreError"}
        \cup (IF \E n \in Addressed(T, by, key) :
                    \E v \in Selected(T, n, s) : v # T[n].DefaultVersionNumber
              THEN {"ok"} ELSE {})

\* the service after create_launch_template(LaunchTemplateName, LaunchTemplateData)
CreateTemplate(T, name, data) ==
    [n \in DOMAIN T \cup {name} |->
        IF n = name
        THEN [LaunchTemplateId     |-> IdOf(name),
              CreateTime           |-> TimeOf(name, 1),
              DefaultVersionNumber |-> 1,
              versions             |-> [v \in {1} |->
                                          [LaunchTemplateData |-> data,
                                           CreateTime         |-> TimeOf(name, 1)]]]
        ELSE T[n]]

\* the service after create_launch_template_version: a new version numbered latest + 1
CreateVersion(T, name, data) ==
    LET new == Max(DOMAIN T[name].versions) + 1 IN
    [T EXCEPT ![name].versions =
        [v \in DOMAIN T[name].versions \cup {new} |->
            IF v = new
            THEN [LaunchTemplateData |-> data, CreateTime |-> TimeOf(name, new)]
            ELSE T[name].versions[v]]]

\* the service after delete_launch_template: the template and all its versions are gone
DeleteTemplate(T, by, key) ==
    [n \in DOMAIN T \ Addressed(T, by, key) |-> T[n]]

\* the service after delete_launch_template_versions(Versions=[s])
DeleteVersions(T, by, key, s) ==
    [n \in DOMAIN T |->
        IF n \in Addressed(T, by, key)
        THEN [T[n] EXCEPT !.versions =
                 [v \in DOMAIN T[n].versions \ Selected(T, n, s) |-> T[n].versions[v]]]
        ELSE T[n]]

\* the responses the service can give to request req in state T
Allowed(T, req) ==
    CASE req.api = "describe_launch_templates" ->
            DescribeTemplatesResponses(T, req.by, req.key)
      [] req.api = "describe_launch_template_versions" ->
            DescribeVersionsResponses(T, req.by, req.key, req.version)
      [] req.api = "create_launch_template" ->
            CreateTemplateResponses(T, req.key)
      [] req.api = "create_launch_template_version" ->
            CreateVersionResponses(T, req.key)
      [] req.api = "delete_launch_template" ->
            DeleteTemplateResponses(T, req.by, req.key)
      [] req.api = "delete_launch_template_versions" ->
            DeleteVersionsResponses(T, req.by, req.key, req.version)

Request(api, by, key, version, data) ==
    [api |-> api, by |-> by, key |-> key, version |-> version, data |-> data]

\* the responses to a wrapper's request; a wrapper that sends none gets "none"
ResponsesTo(T, call) == IF call = None THEN {"none"} ELSE Allowed(T, call[1])

MutatingApis == {"create_launch_template", "create_launch_template_version",
                 "delete_launch_template", "delete_launch_template_versions"}
CreateApis   == {"create_launch_template", "create_launch_template_version"}
DeleteApis   == {"delete_launch_template", "delete_launch_template_versions"}

(***************************************************************************)
(* The six wrappers.  Each is given the service state T, its arguments and *)
(* the response the service gives to the request it sends, and yields how  *)
(* the wrapper ends: it returns a value, it calls module.fail_json (which  *)
(* exits the process), or an exception leaves it.  call is the request it  *)
(* sent (None if it sent none) and T the service afterwards.               *)
(*                                                                         *)
(* Every wrapper catches ClientError and BotoCoreError itself, so the      *)
(* AWSRetry.backoff decorator around it never sees one.  A BotoCoreError   *)
(* has no response attribute: the handlers that format e.response raise    *)
(* AttributeError instead of reaching fail_json.                           *)
(***************************************************************************)
Return(v, call, T)   == [kind |-> "return",    value |-> v,    msg |-> "",  call |-> call, T |-> T]
FailJson(m, call, T) == [kind |-> "fail_json", value |-> None, msg |-> m,   call |-> call, T |-> T]
Raise(exc, call, T)  == [kind |-> "raise",     value |-> None, msg |-> exc, call |-> call, T |-> T]

\* which of name and id a request is addressed by: the name if it is given, else
\* the id if it is given, else None
address(launch_template) ==
    IF launch_template.LaunchTemplateName # None
    THEN Some(<<"name", launch_template.LaunchTemplateName[1]>>)
    ELSE IF "LaunchTemplateId" \in DOMAIN launch_template
            /\ launch_template.LaunchTemplateId # None
    THEN Some(<<"id", launch_template.LaunchTemplateId[1]>>)
    ELSE None

\* the template / version an "ok" response describes
TheTemplate(T, req) == CHOOSE n \in Addressed(T, req.by, req.key) : TRUE
TheVersion(T, req)  == CHOOSE v \in Selected(T, TheTemplate(T, req), req.version) : TRUE

\* variant: the request carries no data
create_lt_request_nodata(launch_template) ==
    Some(Request("create_launch_template", "name",
                 launch_template.LaunchTemplateName[1], "", {}))

create_lt_request(launch_template) ==
    Some(Request("create_launch_template", "name",
                 launch_template.LaunchTemplateName[1], "",
                 launch_template.LaunchTemplateData))

\* variant: errors of the create request are swallowed
create_lt_swallow(T, launch_template, resp) ==
    LET call == create_lt_request(launch_template) IN
    IF resp = "ok"
    THEN Return(None, call, CreateTemplate(T, call[1].key, call[1].data))
    ELSE Return(None, call, T)

create_lt(T, launch_template, resp) ==
    LET call == create_lt_request(launch_template) IN
    CASE resp = "ok" ->
            Return(None, call, CreateTemplate(T, call[1].key, call[1].data))
      [] resp = "ClientError"   -> FailJson("Failed to create launch template", call, T)
      [] resp = "BotoCoreError" -> Raise("AttributeError", call, T)

create_lt_version_request(launch_template) ==
    Some(Request("create_launch_template_version", "name",
                 launch_template.LaunchTemplateName[1], "",
                 launch_template.LaunchTemplateData))

create_lt_version(T, launch_template, resp) ==
    LET call == create_lt_version_request(launch_template) IN
    CASE resp = "ok" ->
            Return(None, call, CreateVersion(T, call[1].key, call[1].data))
      [] resp = "ClientError"   -> FailJson("Failed to create launch template version", call, T)
      [] resp = "BotoCoreError" -> Raise("AttributeError", call, T)

describe_lt_request(launch_template) ==
    LET a == address(launch_template) IN
    IF a = None THEN None
    ELSE Some(Request("describe_launch_templates", a[1][1], a[1][2], "", {}))

\* the except clauses of describe_lt
describe_lt_except(T, call, resp) ==
    IF resp = "ClientError"
    THEN Return(None, call, T)
    ELSE Raise("AttributeError", call, T)

describe_lt(T, launch_template, resp) ==
    LET call == describe_lt_request(launch_template) IN
    IF call # None
    THEN IF resp = "ok"
         THEN Return(Some(TemplateView(T, TheTemplate(T, call[1]))), call, T)
         ELSE describe_lt_except(T, call, resp)
    ELSE IF launch_template.LaunchTemplateName = None
            /\ "LaunchTemplateId" \notin DOMAIN launch_template
    THEN Raise("KeyError", None, T)
    ELSE Return(None, None, T)

describe_lt_version_request(launch_template, version_number) ==
    LET a == address(launch_template) IN
    IF a = None THEN None
    ELSE Some(Request("describe_launch_template_versions", a[1][1], a[1][2],
                      str(version_number), {}))

\* the except clause of describe_lt_version
describe_lt_version_except(T, call, resp) ==
    FailJson("Failed to describe launch template version number", call, T)

describe_lt_version(T, launch_template, version_number, resp) ==
    LET call == describe_lt_version_request(launch_template, version_number) IN
    IF call # None
    THEN IF resp = "ok"
         THEN Return(Some(VersionView(T, TheTemplate(T, call[1]), TheVersion(T, call[1]))),
                     call, T)
         ELSE describe_lt_version_except(T, call, resp)
    ELSE IF launch_template.LaunchTemplateName = None
            /\ "LaunchTemplateId" \notin DOMAIN launch_template
    THEN Raise("KeyError", None, T)
    ELSE FailJson("Missing launch template name or id", None, T)

\* variant: the id takes precedence over the name
delete_lt_request_by_id(launch_template) ==
    IF launch_template.LaunchTemplateId # None
    THEN Some(Request("delete_launch_template", "id",
                      launch_template.LaunchTemplateId[1], "", {}))
    ELSE IF launch_template.LaunchTemplateName # None
    THEN Some(Request("delete_launch_template", "name",
                      launch_template.LaunchTemplateName[1], "", {}))
    ELSE None

delete_lt_request(launch_template) ==
    LET a == address(launch_template) IN
    IF a = None THEN None
    ELSE Some(Request("delete_launch_template", a[1][1], a[1][2], "", {}))

\* variant: a refused delete is taken for "nothing to delete"
delete_lt_except_swallow(T, call, resp) ==
    IF resp = "ClientError"
    THEN Return(None, call, T)
    ELSE Raise("AttributeError", call, T)

\* the except clause of delete_lt
delete_lt_except(T, call, resp) ==
    IF resp = "ClientError"
    THEN FailJson("Failed to delete the launch template", call, T)
    ELSE Raise("AttributeError", call, T)

\* variant: without the final else branch the function falls off its end
delete_lt_nofail(T, launch_template, resp) ==
    LET call == delete_lt_request(launch_template) IN
    IF call # None
    THEN IF resp = "ok"
         THEN Return(Some("deleted"), call, DeleteTemplate(T, call[1].by, call[1].key))
         ELSE delete_lt_except(T, call, resp)
    ELSE Return(None, None, T)

delete_lt(T, launch_template, resp) ==
    LET call == delete_lt_request(launch_template) IN
    IF call # None
    THEN IF resp = "ok"
         THEN Return(Some("deleted"), call, DeleteTemplate(T, call[1].by, call[1].key))
         ELSE delete_lt_except(T, call, resp)
    ELSE FailJson("Missing launch template name or id", None, T)

delete_lt_version_request(launch_template) ==
    LET a == address(launch_template) IN
    IF a = None THEN None
    ELSE Some(Request("delete_launch_template_versions", a[1][1], a[1][2],
                      launch_template.Version[1], {}))

\* the except clause of delete_lt_version
delete_lt_version_except(T, call, resp) ==
    IF resp = "ClientError"
    THEN FailJson("Failed to delete the launch template version", call, T)
    ELSE Raise("AttributeError", call, T)

\* variant: the whole template is deleted
delete_lt_version_whole(T, launch_template, resp) ==
    LET call == delete_lt_request(launch_template) IN
    IF call # None
    THEN IF resp = "ok"
         THEN Return(Some("deleted"), call, DeleteTemplate(T, call[1].by, call[1].key))
         ELSE delete_lt_version_except(T, call, resp)
    ELSE FailJson("Missing launch template name or id", None, T)

delete_lt_version(T, launch_template, resp) ==
    LET call == delete_lt_version_request(launch_template) IN
    IF call # None
    THEN IF resp = "ok"
         THEN Return(Some("deleted"), call,
                     DeleteVersions(T, call[1].by, call[1].key, call[1].version))
         ELSE delete_lt_version_except(T, call, resp)
    ELSE FailJson("Missing launch template name or id", None, T)

(***************************************************************************)
(* module.params, as main()'s argument_spec declares them.                 *)
(***************************************************************************)
NoParams ==
    [name |-> None, id |-> None, version_description |-> None, ami_id |-> None,
     instance_type |-> None, key_name |-> None, security_group_ids |-> None,
     security_groups |-> None, cpu_credits |-> None, version |-> None]

\* the launch template data parameters a task may give
DataChoices ==
    { [ami_id |-> None, instance_type |-> None, key_name |-> None,
       security_group_ids |-> None, security_groups |-> None, cpu_credits |-> None],
      [ami_id |-> Some(""), instance_type |-> None, key_name |-> None,
       security_group_ids |-> Some(<<>>), security_groups |-> None, cpu_credits |-> None],
      [ami_id |-> Some("ami-XXX"), instance_type |-> Some("t1.micro"), key_name |-> None,
       security_group_ids |-> None, security_groups |-> None, cpu_credits |-> None],
      [ami_id |-> Some("ami-YYY"), instance_type |-> Some("t1.micro"),
       key_name |-> Some("default"), security_group_ids |-> Some(<<"sg-5e27db2f">>),
       security_groups |-> Some(<<"web">>), cpu_credits |-> Some("standard")] }

NameChoices == {None} \cup {Some(n) : n \in Names}
IdChoices   == {None} \cup {Some(i) : i \in Ids}
VersionChoices == {None} \cup {Some(ToString(v)) : v \in 1..MaxVersion}

ConvergerParams ==
    { [NoParams EXCEPT !.name = n, !.version_description = vd,
                       !.ami_id = d.ami_id, !.instance_type = d.instance_type,
                       !.key_name = d.key_name,
                       !.security_group_ids = d.security_group_ids,
                       !.security_groups = d.security_groups,
                       !.cpu_credits = d.cpu_credits] :
        n \in NameChoices, vd \in {None, Some("v2")}, d \in DataChoices }

RemoverParams ==
    { [NoParams EXCEPT !.name = n, !.id = i, !.version = v] :
        n \in NameChoices, i \in IdChoices, v \in VersionChoices }

(***************************************************************************)
(* An invocation: the operation main() dispatched to, its position, the    *)
(* locals of the running function, and how the process ended.  calls is    *)
(* the log of the requests it sent with their responses, pre the service   *)
(* as it was when the invocation started.                                  *)
(***************************************************************************)
NoTemplates == [n \in {} |-> n]

Idle ==
    [op |-> "none", pc |-> "idle", params |-> NoParams,
     lt |-> None, lt_latest_version |-> None,
     changed |-> FALSE, results |-> {},
     outcome |-> "none", msg |-> "",
     calls |-> <<>>, pre |-> NoTemplates, follows |-> "other"]

Failures == {"fail_json", "exception"}

\* The host's record of the task a process ran last.  Only a Converger run that
\* exited normally is remembered, with its parameters and the changed flag it reported.
NoLast == [op |-> "none", params |-> NoParams, changed |-> FALSE]

Remembered(i) ==
    IF i.op = "present" /\ i.outcome = "exit_json"
    THEN [op |-> i.op, params |-> i.params, changed |-> i.changed]
    ELSE NoLast

\* how a starting invocation relates to the last one: it repeats a successful
\* Converger run with identical parameters that reported changed / unchanged, or not
Follows(l, op, params) ==
    IF l.op = op /\ l.params = params
    THEN (IF l.changed THEN "same_changed" ELSE "same_unchanged")
    ELSE "other"

\* the invocation after a wrapper call that ended as r on response resp.
\* transient marks an error the state of the service did not force: the
\* same request could have been served (throttling, unavailability).
Logged(i, r, resp) ==
    IF r.call = None THEN i
    ELSE [i EXCEPT !.calls = Append(@,
              [req |-> r.call[1], resp |-> resp, at |-> i.pc,
               transient |-> resp # "ok" /\ "ok" \in Allowed(r.T, r.call[1])])]

\* module.fail_json, or an exception nothing catches: the process ends
Failed(i, r, resp) ==
    [Logged(i, r, resp) EXCEPT
        !.pc = "done",
        !.outcome = IF r.kind = "fail_json" THEN "fail_json" ELSE "exception",
        !.msg = r.msg]

\* backoff_params = dict(tries=10, delay=3, backoff=1.5)
tries == 10

\* how many times in a row the call at the invocation's position has been
\* attempted so far
RECURSIVE Attempts(_, _)
Attempts(calls, at) ==
    IF calls = <<>> \/ calls[Len(calls)].at # at THEN 0
    ELSE 1 + Attempts(SubSeq(calls, 1, Len(calls) - 1), at)

\* @AWSRetry.backoff(**backoff_params): the decorator calls the wrapper
\* again when an exception that is a provider error (ClientError) leaves
\* it and attempts remain; any other exception it raises again, and
\* module.fail_json (SystemExit) passes through it.
AWSRetry_backoff(i, r) ==
    /\ r.kind = "raise"
    /\ r.msg = "ClientError"
    /\ Attempts(i.calls, i.pc) + 1 < tries

\* a decorated wrapper did not return: the decorator repeats the call, or
\* the process ends
NotReturned(i, r, resp) ==
    IF AWSRetry_backoff(i, r) THEN Logged(i, r, resp) ELSE Failed(i, r, resp)

\* an exception raised by the function's own code
Crashed(i, exc) == [i EXCEPT !.pc = "done", !.outcome = "exception", !.msg = exc]

\* main(): module.exit_json(changed=results['changed'], results=results['results'])
Exited(i) == [i EXCEPT !.pc = "done", !.outcome = "exit_json"]

(***************************************************************************)
(* create_launch_template_or_version                                       *)
(***************************************************************************)
\* lines 491-506: the request dict built from the parameters
LaunchTemplateData(params) ==
    (IF TruthyStr(params.ami_id) THEN {<<"ImageId", params.ami_id[1]>>} ELSE {})
    \cup (IF TruthyStr(params.instance_type)
          THEN {<<"InstanceType", params.instance_type[1]>>} ELSE {})
    \cup (IF TruthyStr(params.key_name) THEN {<<"KeyName", params.key_name[1]>>} ELSE {})
    \cup (IF TruthyList(params.security_group_ids)
          THEN {<<"SecurityGroupIds", params.security_group_ids[1]>>} ELSE {})
    \cup (IF TruthyList(params.security_groups)
          THEN {<<"SecurityGroups", params.security_groups[1]>>} ELSE {})
    \cup (IF TruthyStr(params.cpu_credits)
          THEN {<<"CreditSpecification", {<<"CpuCredits", params.cpu_credits[1]>>}>>}
          ELSE {})

ConvergerLaunchTemplate(params) ==
    IF TruthyStr(params.version_description)
    THEN [LaunchTemplateName |-> params.name,
          LaunchTemplateData |-> LaunchTemplateData(params),
          VersionDescription |-> params.version_description[1]]
    ELSE [LaunchTemplateName |-> params.name,
          LaunchTemplateData |-> LaunchTemplateData(params)]

\* variant: only the "is not None" test, which a dict always passes
HasData_notNone(launch_template) == TRUE

\* line 519: is there data to diff against the latest version
HasData(launch_template) == TruthyDict(launch_template.LaunchTemplateData)

\* variant: the latest version is diffed against the whole request, name included
DataDiffers_request(lt_latest_version, launch_template) ==
    lt_latest_version.LaunchTemplateData
        # launch_template.LaunchTemplateData
            \cup {<<"LaunchTemplateName", launch_template.LaunchTemplateName[1]>>}

\* variant: a request with data is never found equal to the latest version
DataDiffers_always(lt_latest_version, launch_template) ==
    lt_latest_version.LaunchTemplateData # launch_template.LaunchTemplateData
        \/ launch_template.LaunchTemplateData # {}

\* line 523: does the latest version differ from the requested data
DataDiffers(lt_latest_version, launch_template) ==
    lt_latest_version.LaunchTemplateData # launch_template.LaunchTemplateData

\* lines 531-539: the result payload
ResultPayload(lt, lt_latest_version) ==
    { <<"id", lt.LaunchTemplateId>>,
      <<"name", lt.LaunchTemplateName>>,
      <<"create_time", to_text(lt.CreateTime)>>,
      <<"default_version_number", lt.DefaultVersionNumber>>,
      <<"latest_version_number", lt.LatestVersionNumber>>,
      <<"latest_version",
        { <<"launch_template_data", lt_latest_version.LaunchTemplateData>>,
          <<"create_time", to_text(lt_latest_version.CreateTime)>> }>> }

ConvergerStart(p, params) ==
    /\ inv[p].pc = "idle"
    /\ inv' = [inv EXCEPT ![p] =
                 [Idle EXCEPT !.op = "present", !.pc = "L510",
                              !.params = params, !.pre = templates,
                              !.follows = Follows(last[p], "present", params)]]
    /\ last' = [last EXCEPT ![p] = NoLast]
    /\ UNCHANGED templates

\* variant: the truthiness test of line 519 in the place of "is not None"
DataIsNotNone_truthy(launch_template) ==
    TruthyDict(launch_template.LaunchTemplateData)

\* line 512: launch_template['LaunchTemplateData'] is not None.  The value
\* is the dict made at line 492, filled or empty: never None.
DataIsNotNone(launch_template) ==
    launch_template.LaunchTemplateData \in SUBSET launch_template.LaunchTemplateData

\* line 510: lt = describe_lt(...), and the branches on it (lines 511, 512
\* and 516-517, 518-519)
After510(i, r, launch_template) ==
    IF r.value = None /\ ~DataIsNotNone(launch_template)
    THEN [i EXCEPT !.lt = r.value,
                   !.pc = "done",
                   !.outcome = "fail_json",
                   !.msg = "Launch template data missing."]
    ELSE [i EXCEPT !.lt = r.value,
                   !.pc = IF r.value = None THEN "L513"
                          ELSE IF HasData(launch_template) THEN "L521"
                          ELSE "L528"]

Converger510(p) ==
    LET i == inv[p]
        launch_template == ConvergerLaunchTemplate(i.params)
    IN  /\ i.pc = "L510"
        /\ \E resp \in ResponsesTo(templates, describe_lt_request(launch_template)) :
             LET r == describe_lt(templates, launch_template, resp) IN
             /\ templates' = r.T
             /\ inv' = [inv EXCEPT ![p] =
                          IF r.kind = "return"
                          THEN After510(Logged(i, r, resp), r, launch_template)
                          ELSE NotReturned(i, r, resp)]
        /\ UNCHANGED last

\* line 513: create_lt(connection, **launch_template)
Converger513(p) ==
    LET i == inv[p]
        launch_template == ConvergerLaunchTemplate(i.params)
    IN  /\ i.pc = "L513"
        /\ \E resp \in ResponsesTo(templates, create_lt_request(launch_template)) :
             LET r == create_lt(templates, launch_template, resp) IN
             /\ templates' = r.T
             /\ inv' = [inv EXCEPT ![p] =
                          IF r.kind = "return"
                          THEN [Logged(i, r, resp) EXCEPT !.pc = "L514"]
                          ELSE NotReturned(i, r, resp)]
        /\ UNCHANGED last

\* variant: results['changed'] is not set
AfterCreate_forget(i, r) == [i EXCEPT !.lt = r.value, !.pc = "L528"]

\* variant: the branch for an existing template runs after a create as well
AfterCreate_fallthrough(i, r) ==
    [i EXCEPT !.lt = r.value, !.changed = TRUE,
              !.pc = IF i.pc = "L514" THEN "L524" ELSE "L528"]

\* lines 514-515 and 525-526: lt = describe_lt(...); results['changed'] = True
AfterCreate(i, r) == [i EXCEPT !.lt = r.value, !.changed = TRUE, !.pc = "L528"]

Converger514(p) ==
    LET i == inv[p]
        launch_template == ConvergerLaunchTemplate(i.params)
    IN  /\ i.pc \in {"L514", "L525"}
        /\ \E resp \in ResponsesTo(templates, describe_lt_request(launch_template)) :
             LET r == describe_lt(templates, launch_template, resp) IN
             /\ templates' = r.T
             /\ inv' = [inv EXCEPT ![p] =
                          IF r.kind = "return"
                          THEN AfterCreate(Logged(i, r, resp), r)
                          ELSE NotReturned(i, r, resp)]
        /\ UNCHANGED last

\* lines 521-523: the latest version, and the diff against the requested data
After521(i, r, launch_template) ==
    [i EXCEPT !.lt_latest_version = r.value,
              !.pc = IF DataDiffers(r.value[1], launch_template) THEN "L524" ELSE "L528"]

Converger521(p) ==
    LET i == inv[p]
        launch_template == ConvergerLaunchTemplate(i.params)
        version_number == PyInt(i.lt[1].LatestVersionNumber)
    IN  /\ i.pc = "L521"
        /\ \E resp \in ResponsesTo(templates,
                          describe_lt_version_request(launch_template, version_number)) :
             LET r == describe_lt_version(templates, launch_template, version_number, resp) IN
             /\ templates' = r.T
             /\ inv' = [inv EXCEPT ![p] =
                          IF r.kind = "return"
                          THEN After521(Logged(i, r, resp), r, launch_template)
                          ELSE NotReturned(i, r, resp)]
        /\ UNCHANGED last

\* line 524: create_lt_version(connection, **launch_template)
Converger524(p) ==
    LET i == inv[p]
        launch_template == ConvergerLaunchTemplate(i.params)
    IN  /\ i.pc = "L524"
        /\ \E resp \in ResponsesTo(templates, create_lt_version_request(launch_template)) :
             LET r == create_lt_version(templates, launch_template, resp) IN
             /\ templates' = r.T
             /\ inv' = [inv EXCEPT ![p] =
                          IF r.kind = "return"
                          THEN [Logged(i, r, resp) EXCEPT !.pc = "L525"]
                          ELSE NotReturned(i, r, resp)]
        /\ UNCHANGED last

\* lines 528-529: lt = describe_lt(...); lt['LatestVersionNumber'] of None is a TypeError
After528(i, r) ==
    IF r.value = None
    THEN Crashed([i EXCEPT !.lt = None], "TypeError")
    ELSE [i EXCEPT !.lt = r.value, !.pc = "L529"]

Converger528(p) ==
    LET i == inv[p]
        launch_template == ConvergerLaunchTemplate(i.params)
    IN  /\ i.pc = "L528"
        /\ \E resp \in ResponsesTo(templates, describe_lt_request(launch_template)) :
             LET r == describe_lt(templates, launch_template, resp) IN
             /\ templates' = r.T
             /\ inv' = [inv EXCEPT ![p] =
                          IF r.kind = "return"
                          THEN After528(Logged(i, r, resp), r)
                          ELSE NotReturned(i, r, resp)]
        /\ UNCHANGED last

\* lines 529-541, and main()'s exit_json
After529(i, r) ==
    Exited([i EXCEPT !.lt_latest_version = r.value,
                     !.results = ResultPayload(i.lt[1], r.value[1])])

Converger529(p) ==
    LET i == inv[p]
        launch_template == ConvergerLaunchTemplate(i.params)
        version_number == PyInt(i.lt[1].LatestVersionNumber)
    IN  /\ i.pc = "L529"
        /\ \E resp \in ResponsesTo(templates,
                          describe_lt_version_request(launch_template, version_number)) :
             LET r == describe_lt_version(templates, launch_template, version_number, resp) IN
             /\ templates' = r.T
             /\ inv' = [inv EXCEPT ![p] =
                          IF r.kind = "return"
                          THEN After529(Logged(i, r, resp), r)
                          ELSE NotReturned(i, r, resp)]
        /\ UNCHANGED last

(***************************************************************************)
(* delete_launch_template_or_version                                       *)
(***************************************************************************)
\* lines 550-552
RemoverLaunchTemplate(params) ==
    [LaunchTemplateName |-> params.name,
     LaunchTemplateId   |-> params.id,
     Version            |-> params.version]

\* variant: the version is deleted without being described first
RemoverEntry_nodescribe(launch_template) ==
    IF launch_template.Version # None THEN "L557" ELSE "L560"

\* line 555: the branch on the version parameter
RemoverEntry(launch_template) ==
    IF launch_template.Version # None THEN "L556" ELSE "L560"

RemoverStart(p, params) ==
    /\ inv[p].pc = "idle"
    /\ inv' = [inv EXCEPT ![p] =
                 [Idle EXCEPT !.op = "absent",
                              !.pc = RemoverEntry(RemoverLaunchTemplate(params)),
                              !.params = params, !.pre = templates]]
    /\ last' = [last EXCEPT ![p] = NoLast]
    /\ UNCHANGED templates

\* line 556: lt_version_to_delete = describe_lt_version(...); the value is not used
Remover556(p) ==
    LET i == inv[p]
        launch_template == RemoverLaunchTemplate(i.params)
        version_number == PyStr(launch_template.Version[1])
    IN  /\ i.pc = "L556"
        /\ \E resp \in ResponsesTo(templates,
                          describe_lt_version_request(launch_template, version_number)) :
             LET r == describe_lt_version(templates, launch_template, version_number, resp) IN
             /\ templates' = r.T
             /\ inv' = [inv EXCEPT ![p] =
                          IF r.kind = "return"
                          THEN [Logged(i, r, resp) EXCEPT !.pc = "L557"]
                          ELSE NotReturned(i, r, resp)]
        /\ UNCHANGED last

\* lines 557-558 and 560-561: results['changed'] = True; return results; exit_json
AfterDelete(i) == Exited([i EXCEPT !.changed = TRUE])

\* line 557: lt = delete_lt_version(connection, launch_template)
Remover557(p) ==
    LET i == inv[p]
        launch_template == RemoverLaunchTemplate(i.params)
    IN  /\ i.pc = "L557"
        /\ \E resp \in ResponsesTo(templates, delete_lt_version_request(launch_template)) :
             LET r == delete_lt_version(templates, launch_template, resp) IN
             /\ templates' = r.T
             /\ inv' = [inv EXCEPT ![p] =
                          IF r.kind = "return"
                          THEN AfterDelete(Logged(i, r, resp))
                          ELSE NotReturned(i, r, resp)]
        /\ UNCHANGED last

\* line 560: lt = delete_lt(connection, launch_template)
Remover560(p) ==
    LET i == inv[p]
        launch_template == RemoverLaunchTemplate(i.params)
    IN  /\ i.pc = "L560"
        /\ \E resp \in ResponsesTo(templates, delete_lt_request(launch_template)) :
             LET r == delete_lt(templates, launch_template, resp) IN
             /\ templates' = r.T
             /\ inv' = [inv EXCEPT ![p] =
                          IF r.kind = "return"
                          THEN AfterDelete(Logged(i, r, resp))
                          ELSE NotReturned(i, r, resp)]
        /\ UNCHANGED last

(***************************************************************************)
(* The process has exited and the host has its result: the process is free *)
(* for the next task.                                                      *)
(***************************************************************************)
Reap(p) ==
    /\ inv[p].pc = "done"
    /\ inv' = [inv EXCEPT ![p] = Idle]
    /\ last' = [last EXCEPT ![p] = Remembered(inv[p])]
    /\ UNCHANGED templates

(***************************************************************************)
(* The sequential specification: one host process runs the module, one     *)
(* invocation after the other, and nothing else touches the service.       *)
(***************************************************************************)
Init ==
    /\ templates = NoTemplates
    /\ inv = [p \in Procs |-> Idle]
    /\ last = [p \in Procs |-> NoLast]

Next ==
    \E p \in SeqProcs :
        \/ \E params \in ConvergerParams : ConvergerStart(p, params)
        \/ Converger510(p)
        \/ Converger513(p)
        \/ Converger514(p)
        \/ Converger521(p)
        \/ Converger524(p)
        \/ Converger528(p)
        \/ Converger529(p)
        \/ \E params \in RemoverParams : RemoverStart(p, params)
        \/ Remover556(p)
        \/ Remover557(p)
        \/ Remover560(p)
        \/ Reap(p)

Spec == Init /\ [][Next]_vars

(***************************************************************************)
(* The concurrent specification: two host processes run the module's       *)
(* Converger once each, at the same time, against a service that starts    *)
(* without templates.  Every provider call is one atomic step of the       *)
(* service; the calls of the two processes interleave in every order.      *)
(***************************************************************************)
ConcParams ==
    { c \in ConvergerParams : c.name # None /\ c.version_description = None }

InitConc == Init

NextConc ==
    \E p \in Procs :
        \/ \E params \in ConcParams : ConvergerStart(p, params)
        \/ Converger510(p)
        \/ Converger513(p)
        \/ Converger514(p)
        \/ Converger521(p)
        \/ Converger524(p)
        \/ Converger528(p)
        \/ Converger529(p)

SpecConc == InitConc /\ [][NextConc]_vars

(***************************************************************************)
(* Vocabulary of the properties.                                           *)
(***************************************************************************)
Converging(i) == i.op = "present"
Removing(i)   == i.op = "absent"
Finished(i)   == i.pc = "done"
ExitedOk(i)   == i.pc = "done" /\ i.outcome = "exit_json"
Terminal(i)   == i.pc = "done" /\ i.outcome \in Failures

\* positions in the call log of the requests to the given calls
CallsTo(i, apis) == {k \in DOMAIN i.calls : i.calls[k].req.api \in apis}

\* latest version number of template n in service state T (0: no such template)
Latest(T, n) == IF n \in DOMAIN T THEN Max(DOMAIN T[n].versions) ELSE 0
LatestData(T, n) == T[n].versions[Latest(T, n)].LaunchTemplateData

\* every version of T is still in U with the same content
VersionsKept(T, U) ==
    \A n \in DOMAIN T : \A v \in DOMAIN T[n].versions :
        /\ n \in DOMAIN U
        /\ v \in DOMAIN U[n].versions
        /\ U[n].versions[v] = T[n].versions[v]

\* the requested name and data of a Converger invocation that names a template
Named(i)         == i.params.name # None
RequestedName(i) == i.params.name[1]
RequestedData(i) == LaunchTemplateData(i.params)

\* the target did not hold the requested data when the invocation started
OutOfDate(i) ==
    \/ RequestedName(i) \notin DOMAIN i.pre
    \/ /\ RequestedData(i) # {}
       /\ LatestData(i.pre, RequestedName(i)) # RequestedData(i)

(***************************************************************************)
(* C1 as stated: of two successive successful Converger runs with          *)
(* identical parameters, the first reports changed=true and the second     *)
(* changed=false, and the second sends no create request.                  *)
(***************************************************************************)
C1_AsStated ==
    \A p \in Procs : LET i == inv[p] IN
        (ExitedOk(i) /\ Converging(i) /\ i.follows # "other")
            => /\ i.follows = "same_changed"
               /\ ~i.changed
               /\ CallsTo(i, CreateApis) = {}

(***************************************************************************)
(* C1 amended: a successful Converger run that repeats a successful run    *)
(* with identical parameters reports changed=false and sends no create     *)
(* request; a successful run reports changed=true exactly when the target  *)
(* did not already hold the requested data (so the first of the two runs   *)
(* reports changed=false on a target that was already converged).          *)
(***************************************************************************)
C1_Idempotence ==
    \A p \in Procs : LET i == inv[p] IN
        (ExitedOk(i) /\ Converging(i))
            => /\ i.changed <=> OutOfDate(i)
               /\ i.follows # "other" =>
                     (~i.changed /\ CallsTo(i, CreateApis) = {})

\* a run that repeats a run which reported changed=true has exited with changed=false
C1_Witness ==
    \E p \in Procs : LET i == inv[p] IN
        ExitedOk(i) /\ Converging(i) /\ i.follows = "same_changed" /\ ~i.changed
            /\ RequestedData(i) # {}

(***************************************************************************)
(* C2 as stated: on an existing template the Converger creates a version   *)
(* and reports changed=true iff the latest version's data is not equal to  *)
(* the requested data, and sends no mutating request when they are equal.  *)
(***************************************************************************)
C2_AsStated ==
    \A p \in Procs : LET i == inv[p] IN
        (ExitedOk(i) /\ Converging(i) /\ RequestedName(i) \in DOMAIN i.pre)
            => LET differs == LatestData(i.pre, RequestedName(i)) # RequestedData(i) IN
               /\ i.changed <=> differs
               /\ CallsTo(i, {"create_launch_template_version"}) # {} <=> differs
               /\ ~differs => CallsTo(i, MutatingApis) = {}

(***************************************************************************)
(* C2 amended: on an existing template the Converger creates a version     *)
(* and reports changed=true iff the requested data is not empty and not    *)
(* equal to the latest version's data; otherwise (equal data, or a request *)
(* without data) it sends no mutating request and reports changed=false.   *)
(***************************************************************************)
C2_VersionIffDiffers ==
    \A p \in Procs : LET i == inv[p] IN
        (ExitedOk(i) /\ Converging(i) /\ RequestedName(i) \in DOMAIN i.pre)
            => LET differs == /\ RequestedData(i) # {}
                              /\ LatestData(i.pre, RequestedName(i)) # RequestedData(i)
               IN
               /\ i.changed <=> differs
               /\ differs =>
                     /\ Cardinality(CallsTo(i, {"create_launch_template_version"})) = 1
                     /\ Cardinality(CallsTo(i, MutatingApis)) = 1
                     /\ LatestData(templates, RequestedName(i)) = RequestedData(i)
               /\ ~differs =>
                     /\ CallsTo(i, MutatingApis) = {}
                     /\ templates = i.pre

\* a run on an existing template whose latest data differed has created a version
C2_Witness ==
    \E p \in Procs : LET i == inv[p] IN
        /\ ExitedOk(i) /\ Converging(i) /\ RequestedName(i) \in DOMAIN i.pre
        /\ i.changed
        /\ CallsTo(i, {"create_launch_template_version"}) # {}

(***************************************************************************)
(* C3: a successful Converger run on a name that has no template sends     *)
(* exactly one create-template request, carrying the requested name and    *)
(* data, and no create-version request; it reports changed=true and its    *)
(* result holds latest_version_number 1 and the new template's id, name    *)
(* and creation time.                                                      *)
(***************************************************************************)
C3_CreatesAbsentTemplate ==
    \A p \in Procs : LET i == inv[p] IN
        (ExitedOk(i) /\ Converging(i) /\ RequestedName(i) \notin DOMAIN i.pre)
            => LET n == RequestedName(i)
                   created == CallsTo(i, {"create_launch_template"})
               IN
               /\ Cardinality(created) = 1
               /\ \A k \in created :
                     /\ i.calls[k].req.key = n
                     /\ i.calls[k].req.data = RequestedData(i)
                     /\ i.calls[k].resp = "ok"
               /\ CallsTo(i, MutatingApis) = created
               /\ i.changed
               /\ n \in DOMAIN templates
               /\ Get(i.results, "latest_version_number") = 1
               /\ Get(i.results, "id") = templates[n].LaunchTemplateId
               /\ Get(i.results, "name") = n
               /\ Get(i.results, "create_time") = to_text(templates[n].CreateTime)
               /\ Get(Get(i.results, "latest_version"), "launch_template_data")
                     = RequestedData(i)

\* a run has created a template that was not there, with data
C3_Witness ==
    \E p \in Procs : LET i == inv[p] IN
        /\ ExitedOk(i) /\ Converging(i) /\ RequestedName(i) \notin DOMAIN i.pre
        /\ RequestedData(i) # {}
        /\ Get(i.results, "latest_version_number") = 1

(***************************************************************************)
(* C4: a successful Converger run that reports changed=true has raised the *)
(* template's latest version number by exactly 1 (from 0 for a new         *)
(* template), one that reports changed=false has left it as it was, and    *)
(* at every point of every Converger run each version that existed when    *)
(* the run started is still there with the same data.                      *)
(***************************************************************************)
C4_VersionMonotonicity ==
    \A p \in Procs : LET i == inv[p] IN
        Converging(i) =>
            /\ VersionsKept(i.pre, templates)
            /\ (ExitedOk(i) /\ i.changed) =>
                  Latest(templates, RequestedName(i)) = Latest(i.pre, RequestedName(i)) + 1
            /\ (ExitedOk(i) /\ ~i.changed) =>
                  Latest(templates, RequestedName(i)) = Latest(i.pre, RequestedName(i))

\* a run has added version 2 to a template that had version 1
C4_Witness ==
    \E p \in Procs : LET i == inv[p] IN
        /\ ExitedOk(i) /\ Converging(i) /\ i.changed
        /\ Latest(i.pre, RequestedName(i)) >= 1
        /\ Latest(templates, RequestedName(i)) = Latest(i.pre, RequestedName(i)) + 1

(***************************************************************************)
(* C5: at every point of a Converger run, whatever the responses were, the *)
(* run has sent at most one create-template or create-version request in   *)
(* total, and no delete request.                                           *)
(***************************************************************************)
C5_AtMostOneCreate ==
    \A p \in Procs : LET i == inv[p] IN
        Converging(i) =>
            /\ Cardinality(CallsTo(i, CreateApis)) <= 1
            /\ CallsTo(i, DeleteApis) = {}

\* a run whose create request was answered by an error has ended
C5_Witness ==
    \E p \in Procs : LET i == inv[p] IN
        /\ Converging(i) /\ Finished(i)
        /\ \E k \in CallsTo(i, CreateApis) : i.calls[k].resp # "ok"

(***************************************************************************)
(* C6 as stated: an error response to any describe or create request of a  *)
(* Converger run ends the run in a terminal failure, and no mutating       *)
(* request follows it.                                                     *)
(***************************************************************************)
C6_AsStated ==
    \A p \in Procs : LET i == inv[p] IN
        Converging(i) =>
            \A k \in DOMAIN i.calls :
                i.calls[k].resp # "ok" =>
                    /\ Finished(i) => Terminal(i)
                    /\ \A m \in CallsTo(i, MutatingApis) : m < k

\* an error response that describe_lt turns into "no such template"
Swallowed(c) ==
    c.req.api = "describe_launch_templates" /\ c.resp = "ClientError"

(***************************************************************************)
(* C6 amended: a transport error on any describe or create request, and a  *)
(* provider rejection of a describe-version, create-template or            *)
(* create-version request, is the last request of the run and ends it in   *)
(* a terminal failure.  A provider rejection of a describe-template        *)
(* request is not a failure in itself: describe_lt returns None for it,    *)
(* which the initial lookup reads as "no such template" (the next request  *)
(* is then create-template), the re-fetch after a create discards, and the *)
(* final fetch fails on.                                                   *)
(***************************************************************************)
C6_ErrorsTerminalButLookup ==
    \A p \in Procs : LET i == inv[p] IN
        Converging(i) =>
            \A k \in DOMAIN i.calls : LET c == i.calls[k] IN
                /\ (c.resp # "ok" /\ ~Swallowed(c)) =>
                      (k = Len(i.calls) /\ Terminal(i))
                /\ (Swallowed(c) /\ c.at = "L510" /\ k < Len(i.calls)) =>
                      i.calls[k + 1].req.api = "create_launch_template"
                /\ (Swallowed(c) /\ c.at = "L510" /\ k = Len(i.calls)) =>
                      i.pc = "L513"
                /\ (Swallowed(c) /\ c.at \in {"L514", "L525"} /\ k = Len(i.calls)) =>
                      (i.pc = "L528" /\ i.changed)
                /\ (Swallowed(c) /\ c.at = "L528") =>
                      (k = Len(i.calls) /\ Terminal(i) /\ i.msg = "TypeError")

\* a run has ended in failure on a rejected create request that followed a
\* rejected lookup
C6_Witness ==
    \E p \in Procs : LET i == inv[p] IN
        /\ Converging(i) /\ Terminal(i) /\ Len(i.calls) = 2
        /\ Swallowed(i.calls[1])
        /\ i.calls[2].req.api = "create_launch_template"
        /\ i.calls[2].resp = "ClientError"

\* the resource a Remover invocation names: by name if a name is given, else by id
Addresses(i)  == i.params.name # None \/ i.params.id # None
TargetBy(i)   == IF i.params.name # None THEN "name" ELSE "id"
TargetKey(i)  == IF i.params.name # None THEN i.params.name[1] ELSE i.params.id[1]
Targets(T, i) == Addressed(T, TargetBy(i), TargetKey(i))
Versioned(i)  == i.params.version # None

\* the named version of the named template was there when the invocation started
TargetVersionExisted(i) ==
    \E n \in Targets(i.pre, i) : Selected(i.pre, n, i.params.version[1]) # {}

\* all version numbers the service can hold, and one beyond
AnyVersion == 1..(MaxVersion + 1)

(***************************************************************************)
(* C7: a Remover run with a version number, on an existing version of an   *)
(* existing template, that completes reports changed=true and has deleted  *)
(* that version only: a describe of the version is now refused and cannot  *)
(* succeed, the template is still there and can be described, every other  *)
(* version of it and every other template is as it was.                    *)
(***************************************************************************)
C7_DeletesOnlyThatVersion ==
    \A p \in Procs : LET i == inv[p] IN
        (ExitedOk(i) /\ Removing(i) /\ Versioned(i) /\ TargetVersionExisted(i))
            => LET s == i.params.version[1] IN
               /\ i.changed
               /\ i.results = {}
               /\ DOMAIN templates = DOMAIN i.pre
               /\ \A n \in Targets(i.pre, i) :
                     /\ DOMAIN templates[n].versions
                           = DOMAIN i.pre[n].versions \ Selected(i.pre, n, s)
                     /\ \A v \in DOMAIN templates[n].versions :
                           templates[n].versions[v] = i.pre[n].versions[v]
                     /\ TemplateView(templates, n).LaunchTemplateId
                           = TemplateView(i.pre, n).LaunchTemplateId
                     /\ TemplateView(templates, n).CreateTime
                           = TemplateView(i.pre, n).CreateTime
               /\ \A m \in DOMAIN i.pre \ Targets(i.pre, i) : templates[m] = i.pre[m]
               /\ DescribeVersionsResponses(templates, TargetBy(i), TargetKey(i), s)
                     = {"ClientError", "BotoCoreError"}
               /\ "ok" \in DescribeTemplatesResponses(templates, TargetBy(i), TargetKey(i))

\* a run has deleted one version of a template
C7_Witness ==
    \E p \in Procs : LET i == inv[p] IN
        /\ ExitedOk(i) /\ Removing(i) /\ Versioned(i) /\ TargetVersionExisted(i)
        /\ \E n \in DOMAIN templates :
              DOMAIN templates[n].versions # DOMAIN i.pre[n].versions

(***************************************************************************)
(* C8: a Remover run without a version number, on an existing template,    *)
(* that completes reports changed=true with an empty result and has        *)
(* removed the template: a describe of the template, or of any version of  *)
(* it, cannot succeed any more; the other templates are as they were.      *)
(***************************************************************************)
C8_DeletionCompleteness ==
    \A p \in Procs : LET i == inv[p] IN
        (ExitedOk(i) /\ Removing(i) /\ ~Versioned(i) /\ Targets(i.pre, i) # {})
            => /\ i.changed
               /\ i.results = {}
               /\ DOMAIN templates = DOMAIN i.pre \ Targets(i.pre, i)
               /\ \A m \in DOMAIN templates : templates[m] = i.pre[m]
               /\ \A n \in Targets(i.pre, i) :
                     /\ "ok" \notin DescribeTemplatesResponses(templates, "name", n)
                     /\ "ok" \notin DescribeTemplatesResponses(templates, "id",
                                                               i.pre[n].LaunchTemplateId)
                     /\ \A v \in AnyVersion :
                           "ok" \notin DescribeVersionsResponses(templates, "name", n,
                                                                 ToString(v))

\* a run has removed a template that had more than one version
C8_Witness ==
    \E p \in Procs : LET i == inv[p] IN
        /\ ExitedOk(i) /\ Removing(i) /\ ~Versioned(i)
        /\ \E n \in Targets(i.pre, i) :
              Cardinality(DOMAIN i.pre[n].versions) > 1 /\ n \notin DOMAIN templates

\* the template, or the version, a Remover invocation names was not there at its start
TargetAbsent(i) ==
    /\ Addresses(i)
    /\ \/ Targets(i.pre, i) = {}
       \/ Versioned(i) /\ ~TargetVersionExisted(i)

(***************************************************************************)
(* C9 as stated: a Remover run on a template or version that is already    *)
(* absent reports changed=true.                                            *)
(***************************************************************************)
C9_AsStated ==
    \A p \in Procs : LET i == inv[p] IN
        (Finished(i) /\ Removing(i) /\ TargetAbsent(i))
            => (ExitedOk(i) /\ i.changed)

(***************************************************************************)
(* C9 amended: the Remover has no "already absent, changed=false" path:    *)
(* every Remover run that completes reports changed=true.  A run on a      *)
(* template or version that is already absent does not complete: the       *)
(* describe or delete request for the missing resource is refused (or      *)
(* lost), the run ends in a terminal failure and the service is unchanged. *)
(***************************************************************************)
C9_AbsentTargetFails ==
    \A p \in Procs : LET i == inv[p] IN
        (Finished(i) /\ Removing(i))
            => /\ ExitedOk(i) => i.changed
               /\ TargetAbsent(i) =>
                     /\ Terminal(i)
                     /\ templates = i.pre
                     /\ Len(i.calls) = 1
                     /\ i.calls[1].resp # "ok"

\* a run on a template that does not exist has ended in fail_json
C9_Witness ==
    \E p \in Procs : LET i == inv[p] IN
        /\ Finished(i) /\ Removing(i) /\ TargetAbsent(i) /\ ~Versioned(i)
        /\ i.outcome = "fail_json"
        /\ i.msg = "Failed to delete the launch template"

(***************************************************************************)
(* C10: a Remover run given neither a name nor an id sends no request at   *)
(* all and ends in fail_json("Missing launch template name or id"), with   *)
(* or without a version number; a run given both a name and an id          *)
(* addresses every request it sends by that name.                          *)
(***************************************************************************)
C10_MissingNameAndId ==
    \A p \in Procs : LET i == inv[p] IN
        Removing(i) =>
            /\ ~Addresses(i) =>
                  /\ i.calls = <<>>
                  /\ templates = i.pre
                  /\ Finished(i) =>
                        /\ i.outcome = "fail_json"
                        /\ i.msg = "Missing launch template name or id"
            /\ (i.params.name # None /\ i.params.id # None) =>
                  \A k \in DOMAIN i.calls :
                      /\ i.calls[k].req.by = "name"
                      /\ i.calls[k].req.key = i.params.name[1]

\* a run with a version number but neither name nor id has ended in the usage failure
C10_Witness ==
    \E p \in Procs : LET i == inv[p] IN
        /\ Removing(i) /\ Finished(i) /\ ~Addresses(i) /\ Versioned(i)
        /\ i.msg = "Missing launch template name or id"


(***************************************************************************)
(* C11.  Retries.                                                          *)
(***************************************************************************)
\* the k-th call of an invocation was answered by a transient provider
\* error, and fewer than tries attempts of it had been made by then
TransientError(c, k) ==
    /\ c[k].transient
    /\ c[k].resp = "ClientError"
    /\ Attempts(SubSeq(c, 1, k), c[k].at) < tries

\* C11 as stated: a transient provider error raised by an API call inside
\* a retry-wrapped function is retried: while fewer than 10 attempts have
\* been made, the error is followed by the same call again, and the
\* invocation neither ends nor moves on to another call because of it.
C11_AsStated ==
    \A p \in Procs :
        LET c == inv[p].calls IN
        \A k \in 1..Len(c) :
            TransientError(c, k) =>
                IF k < Len(c)
                THEN c[k + 1].req = c[k].req /\ c[k + 1].at = c[k].at
                ELSE inv[p].pc = c[k].at

(***************************************************************************)
(* C12.  A request without data.                                           *)
(***************************************************************************)
\* a Converger invocation whose request carries no launch template data
NoData(i) == Converging(i) /\ Named(i) /\ RequestedData(i) = {}

\* the invocation has sent the request k-th in its log: create-template
\* for its name, with empty data
CreatesEmpty(i, k) ==
    /\ Len(i.calls) >= k
    /\ i.calls[k].req.api = "create_launch_template"
    /\ i.calls[k].req.key = RequestedName(i)
    /\ i.calls[k].req.data = {}

\* C12: a Converger request that carries no launch template data is never
\* rejected as incomplete: no invocation ends with "Launch template data
\* missing.".  When the template is absent, the lookup is followed by a
\* create-template request with empty data; when the lookup finds the
\* template, no mutating request is sent and changed stays false.
C12_NoDataNeverRejected ==
    \A p \in Procs : LET i == inv[p] IN
        NoData(i) =>
            /\ i.msg # "Launch template data missing."
            /\ (/\ RequestedName(i) \notin DOMAIN i.pre
                /\ Len(i.calls) >= 1
                /\ i.calls[1].resp = "ClientError")
                    => (i.pc = "L513" \/ CreatesEmpty(i, 2))
            /\ (/\ RequestedName(i) \in DOMAIN i.pre
                /\ Len(i.calls) >= 1
                /\ i.calls[1].resp = "ok")
                    => /\ CallsTo(i, MutatingApis) = {}
                       /\ ~i.changed
                       /\ templates = i.pre

\* a request without data completes with changed=false on the template
\* that the same request, run just before, created with empty data
C12_Witness ==
    \E p \in Procs : LET i == inv[p] IN
        /\ NoData(i)
        /\ ExitedOk(i)
        /\ i.follows = "same_changed"
        /\ RequestedName(i) \in DOMAIN i.pre
        /\ LatestData(i.pre, RequestedName(i)) = {}
        /\ Latest(i.pre, RequestedName(i)) = 1
        /\ ~i.changed

(***************************************************************************)
(* C13.  The Remover describes a version before deleting it.               *)
(***************************************************************************)
\* the k-th request of the invocation was a describe of the version the
\* invocation names, on the template it names, and it succeeded
DescribedVersion(i, k) ==
    /\ k \in DOMAIN i.calls
    /\ i.calls[k].req.api = "describe_launch_template_versions"
    /\ i.calls[k].req.by = TargetBy(i)
    /\ i.calls[k].req.key = TargetKey(i)
    /\ i.calls[k].req.version = i.params.version[1]
    /\ i.calls[k].resp = "ok"

\* C13: in a Remover invocation with a version number, a
\* delete-template-versions request is sent only right after a describe of
\* that exact version has succeeded; once the describe has failed, the
\* invocation has ended in a terminal failure, has sent no delete request,
\* and the service's templates and versions are as they were.
C13_DescribeBeforeDelete ==
    \A p \in Procs : LET i == inv[p] IN
        (Removing(i) /\ Versioned(i)) =>
            /\ \A k \in CallsTo(i, DeleteApis) :
                  /\ i.calls[k].req.api = "delete_launch_template_versions"
                  /\ DescribedVersion(i, k - 1)
            /\ (i.pc # "L556" /\ ~DescribedVersion(i, 1))
                  => /\ Terminal(i)
                     /\ CallsTo(i, MutatingApis) = {}
                     /\ ~i.changed
                     /\ templates = i.pre

\* a Remover run named a version the template does not have: the describe
\* was refused and the run failed without a delete request
C13_Witness ==
    \E p \in Procs : LET i == inv[p] IN
        /\ Removing(i) /\ Versioned(i) /\ Addresses(i)
        /\ Targets(i.pre, i) # {}
        /\ ~TargetVersionExisted(i)
        /\ Terminal(i)
        /\ i.msg = "Failed to describe launch template version number"
        /\ Len(i.calls) = 1
        /\ i.calls[1].resp = "ClientError"
        /\ ~i.calls[1].transient
        /\ templates = i.pre

(***************************************************************************)
(* C14.  Two concurrent Converger runs of the same request.                *)
(***************************************************************************)
\* both processes run the Converger with the same name and the same,
\* non-empty, data
SameRequest ==
    /\ \A p \in Procs : Converging(inv[p]) /\ Named(inv[p])
    /\ \A p, q \in Procs : inv[p].params = inv[q].params
    /\ \A p \in Procs : RequestedData(inv[p]) # {}

\* every answer the invocation got was the service's own: served, or
\* refused because the state of the service forced it (no such template,
\* name taken); none was a transient refusal or lost
Truthful(i) ==
    \A k \in DOMAIN i.calls :
        \/ i.calls[k].resp = "ok"
        \/ i.calls[k].resp = "ClientError" /\ ~i.calls[k].transient

\* template n holds exactly version 1, with the given data
OnlyVersionOne(T, n, data) ==
    /\ DOMAIN T = {n}
    /\ DOMAIN T[n].versions = {1}
    /\ T[n].versions[1].LaunchTemplateData = data

\* C14: two Converger invocations with the same name and the same
\* non-empty data, running concurrently against a target without that
\* template: under every interleaving of their provider calls the target
\* never holds more than one template of that name nor more than version
\* 1 of it, and at most one invocation has changed=true; an invocation
\* that completes reports latest_version_number 1; and when both have
\* ended, the provider having answered every call by its state, the
\* target holds exactly one template with exactly one version, one
\* invocation reports changed=true and the other changed=false or a
\* terminal failure.
C14_ConcurrentConverge ==
    SameRequest =>
        LET n    == RequestedName(inv[1])
            data == RequestedData(inv[1])
        IN
        /\ templates = NoTemplates \/ OnlyVersionOne(templates, n, data)
        /\ Cardinality({p \in Procs : inv[p].changed}) <= 1
        /\ \A p \in Procs :
              ExitedOk(inv[p])
                => /\ OnlyVersionOne(templates, n, data)
                   /\ Get(inv[p].results, "latest_version_number") = 1
        /\ (\A p \in Procs : Finished(inv[p]) /\ Truthful(inv[p]))
              => /\ OnlyVersionOne(templates, n, data)
                 /\ Cardinality({p \in Procs : ExitedOk(inv[p]) /\ inv[p].changed}) = 1
                 /\ \A p \in Procs :
                       \/ ExitedOk(inv[p])
                       \/ Terminal(inv[p]) /\ ~inv[p].changed

\* both runs found the template absent and both sent create-template: the
\* service served one and refused the other, which failed
C14_Witness ==
    /\ SameRequest
    /\ \A p \in Procs : Finished(inv[p]) /\ Truthful(inv[p])
    /\ \A p \in Procs : CallsTo(inv[p], {"create_launch_template"}) # {}
    /\ \E p, q \in Procs :
          /\ ExitedOk(inv[p]) /\ inv[p].changed
          /\ Terminal(inv[q])
          /\ inv[q].msg = "Failed to create launch template"
    /\ OnlyVersionOne(templates, RequestedName(inv[1]), RequestedData(inv[1]))

====
